---- MODULE Spec2Model ----
(***************************************************************************)
(* Emby provisioning (join), directory sync (EmbyClient.list_users),       *)
(* account removal (delete_user) and account update (update_user) of       *)
(* app/services/media/emby.py, as a state machine over the local database, *)
(* the per-request database session and the remote Emby server.            *)
(***************************************************************************)
EXTENDS Integers, Sequences, FiniteSets, TLC

\* ------------------------------------------------------------------ bounds
\* Number of requests (join, list_users or delete_user calls) served in one
\* behaviour.
MaxCalls == 2
\* Longest library catalog and longest reference list of the resolver check.
MaxCatalog == 2
MaxRefs == 2

\* ------------------------------------------------------- program constants
\* join: "if not 8 <= len(password) <= 20".
MinPassword == 8
MaxPassword == 20

GenericError == "An unexpected error occurred during user creation."
EmailError == "Invalid e-mail address."
\* Line 251. The character between 8 and 20 is U+2013 EN DASH, which a module
\* cannot hold: the string names it by its escape, backslash u2013.
PasswordLengthError == "Password must be 8\\u201320 characters."
PasswordMatchError == "Passwords do not match."
DuplicateError == "User or e-mail already exists."
\* Messages is_invite_valid returns with ok = False; join passes them on as they
\* are (line 258).
InviteError == "Invalid invitation."
InviteExpiredError == "Invitation has expired."

\* Python's None for optional columns: the empty tuple; a value v is <<v>>.
None == <<>>
Some(v) == <<v>>

\* ------------------------------------------------------------------ helpers
Range(s) == {s[i] : i \in 1..Len(s)}

RECURSIVE Rep(_, _)
Rep(c, n) == IF n = 0 THEN <<>> ELSE <<c>> \o Rep(c, n - 1)

RECURSIVE SeqsUpTo(_, _)
\* Every sequence over S of length at most n.
SeqsUpTo(S, n) ==
    IF n = 0 THEN {<<>>}
    ELSE LET shorter == SeqsUpTo(S, n - 1)
         IN shorter \cup {Append(s, x) : s \in {t \in shorter : Len(t) = n - 1}, x \in S}

\* Every ordering of the finite set S as a duplicate-free sequence.
Orderings(S) ==
    {s \in [1..Cardinality(S) -> S] : \A i, j \in 1..Cardinality(S) : s[i] = s[j] => i = j}

\* ---------------------------------------------------------- input validation
\* EMAIL_RE.fullmatch(email) for r"[^@]+@[^@]+\.[^@]+": an "@" that is not the
\* first character, no "@" anywhere after it, and a "." after it that has at
\* least one character on each side. [^@]+ before the "@" forbids any other "@".
EmailMatch(email) ==
    \E i \in 1..Len(email) :
        /\ email[i] = "@"
        /\ i > 1
        /\ \A k \in 1..Len(email) : email[k] = "@" => k = i
        /\ \E j \in (i + 2)..(Len(email) - 1) : email[j] = "."

PasswordLengthOk(password) ==
    MinPassword <= Len(password) /\ Len(password) <= MaxPassword


\* ------------------------------------------------------------- input domains
Usernames == {"alice", "bob"}
EmailA == <<"a", "@", "b", ".", "c">>
EmailB == <<"b", "@", "b", ".", "c">>
Emails == {EmailA, EmailB, <<"a", "@", "b">>, <<"@", "b", ".", "c">>, <<"a", "@", "b", ".">>}
Passwords == {Rep("x", MinPassword - 1), Rep("x", MinPassword), Rep("x", MaxPassword + 1)}
Confirms(password) == {password, Rep("y", MinPassword)}
Codes == {"INV1", "INV2", "BAD"}

\* The placeholder e-mail "empty" of list_users, as characters like every e-mail.
EmptyEmail == <<"e", "m", "p", "t", "y">>

\* ------------------------------------------------------------ library resolver
\* set_specific_folders: id_to_name = {item["Id"]: item["Name"] ...}; a later
\* item with the same key overwrites an earlier one.
id_to_name(media) ==
    [id \in {media[i].Id : i \in 1..Len(media)} |->
        media[CHOOSE i \in 1..Len(media) :
                 media[i].Id = id /\ \A j \in (i + 1)..Len(media) : media[j].Id # id].Name]

\* set_specific_folders: name_to_id = {item["Name"]: item["Id"] ...}.
name_to_id(media) ==
    [nm \in {media[i].Name : i \in 1..Len(media)} |->
        media[CHOOSE i \in 1..Len(media) :
                 media[i].Name = nm /\ \A j \in (i + 1)..Len(media) : media[j].Name # nm].Id]

\* Variant of MatchRef: the name lookup is tried before the direct ID match.
MatchRefNameFirst(name, media) ==
    IF name \in DOMAIN name_to_id(media) THEN <<name_to_id(media)[name]>>
    ELSE IF name \in DOMAIN id_to_name(media) THEN <<name>>
    ELSE <<>>

\* One iteration of "for name in names": what is appended to folder_ids.
MatchRef(name, media) ==
    IF name \in DOMAIN id_to_name(media) THEN <<name>>
    ELSE IF name \in DOMAIN name_to_id(media) THEN <<name_to_id(media)[name]>>
    ELSE <<>>

RECURSIVE MatchRefs(_, _)
\* The loop over names: folder_ids before de-duplication.
MatchRefs(refs, media) ==
    IF refs = <<>> THEN <<>>
    ELSE MatchRef(Head(refs), media) \o MatchRefs(Tail(refs), media)

\* Variant of DedupFolderIds that keeps the list as the loop built it.
KeepFolderIds(ids) == {ids}

\* list(set([fid for fid in folder_ids if fid])): the truthy identifiers, each
\* once, in an order the set iteration picks.
DedupFolderIds(ids) == Orderings({fid \in Range(ids) : fid # ""})

\* -------------------------------------------------------------- policy merge
\* dict.update: the keys of patch overwrite or extend d.
Update(d, patch) ==
    [k \in DOMAIN d \cup DOMAIN patch |-> IF k \in DOMAIN patch THEN patch[k] ELSE d[k]]

\* Variant of policy_patch that never grants every library.
policy_patchRestrictive(ids) == [EnableAllFolders |-> FALSE, EnabledFolders |-> ids]

\* Lines 213-216: "EnableAllFolders": not folder_ids, "EnabledFolders": folder_ids.
policy_patch(ids) == [EnableAllFolders |-> ids = <<>>, EnabledFolders |-> ids]

playback_permissions ==
    [EnableMediaPlayback |-> TRUE,
     EnableAudioPlaybackTranscoding |-> TRUE,
     EnableVideoPlaybackTranscoding |-> TRUE,
     EnablePlaybackRemuxing |-> TRUE,
     EnableContentDownloading |-> TRUE,
     EnableRemoteAccess |-> TRUE]

\* Variant of MergedPolicy in which the fetched policy keeps the playback flags
\* it already has.
MergedPolicyKeepCurrent(cur, ids) ==
    Update(Update(playback_permissions, cur), policy_patch(ids))

\* The policy set_specific_folders posts: current.update(policy_patch), then
\* current.update(playback_permissions).
MergedPolicy(cur, ids) == Update(Update(cur, policy_patch(ids)), playback_permissions)

\* Policies the server gives a fresh account: every flag present and off, or a
\* sparse policy that lacks some of the flags.
DefaultPolicies ==
    {[IsAdministrator |-> FALSE, EnableAllFolders |-> TRUE, EnabledFolders |-> <<>>,
      EnableMediaPlayback |-> FALSE, EnableAudioPlaybackTranscoding |-> FALSE,
      EnableVideoPlaybackTranscoding |-> FALSE, EnablePlaybackRemuxing |-> FALSE,
      EnableContentDownloading |-> FALSE, EnableRemoteAccess |-> FALSE],
     [IsAdministrator |-> FALSE, EnableAllFolders |-> FALSE, EnabledFolders |-> <<"2">>,
      EnableMediaPlayback |-> TRUE, EnableRemoteAccess |-> FALSE]}


\* ------------------------------------------------------------- python values
\* A value of the account record, of the merge of update_user, or of a column
\* of the invitation. Every value carries all five fields so that values of
\* different Python types compare unequal.
PyStr(s) == [t |-> "str", b |-> FALSE, n |-> 0, l |-> <<>>, s |-> s]
PyBool(b) == [t |-> "bool", b |-> b, n |-> 0, l |-> <<>>, s |-> <<>>]
PyInt(n) == [t |-> "int", b |-> FALSE, n |-> n, l |-> <<>>, s |-> <<>>]
PyList(l) == [t |-> "list", b |-> FALSE, n |-> 0, l |-> l, s |-> <<>>]
\* An exception that leaves the coercion.
PyRaise(e) == [t |-> "raise", b |-> FALSE, n |-> 0, l |-> <<>>, s |-> <<e>>]

TrueText == <<"T", "r", "u", "e">>

\* The decimal digits int() reads: the characters of the Unicode category Nd,
\* 66 rows of ten, each row the digits 0 to 9 of one script. A character
\* outside ASCII is the one-element text of its escape.
DigitChars == <<"0", "1", "2", "3", "4", "5", "6", "7", "8", "9">>
DigitRows ==
    {DigitChars,
     <<"\\u0660", "\\u0661", "\\u0662", "\\u0663", "\\u0664",
       "\\u0665", "\\u0666", "\\u0667", "\\u0668", "\\u0669">>,
     <<"\\u06f0", "\\u06f1", "\\u06f2", "\\u06f3", "\\u06f4",
       "\\u06f5", "\\u06f6", "\\u06f7", "\\u06f8", "\\u06f9">>,
     <<"\\u07c0", "\\u07c1", "\\u07c2", "\\u07c3", "\\u07c4",
       "\\u07c5", "\\u07c6", "\\u07c7", "\\u07c8", "\\u07c9">>,
     <<"\\u0966", "\\u0967", "\\u0968", "\\u0969", "\\u096a",
       "\\u096b", "\\u096c", "\\u096d", "\\u096e", "\\u096f">>,
     <<"\\u09e6", "\\u09e7", "\\u09e8", "\\u09e9", "\\u09ea",
       "\\u09eb", "\\u09ec", "\\u09ed", "\\u09ee", "\\u09ef">>,
     <<"\\u0a66", "\\u0a67", "\\u0a68", "\\u0a69", "\\u0a6a",
       "\\u0a6b", "\\u0a6c", "\\u0a6d", "\\u0a6e", "\\u0a6f">>,
     <<"\\u0ae6", "\\u0ae7", "\\u0ae8", "\\u0ae9", "\\u0aea",
       "\\u0aeb", "\\u0aec", "\\u0aed", "\\u0aee", "\\u0aef">>,
     <<"\\u0b66", "\\u0b67", "\\u0b68", "\\u0b69", "\\u0b6a",
       "\\u0b6b", "\\u0b6c", "\\u0b6d", "\\u0b6e", "\\u0b6f">>,
     <<"\\u0be6", "\\u0be7", "\\u0be8", "\\u0be9", "\\u0bea",
       "\\u0beb", "\\u0bec", "\\u0bed", "\\u0bee", "\\u0bef">>,
     <<"\\u0c66", "\\u0c67", "\\u0c68", "\\u0c69", "\\u0c6a",
       "\\u0c6b", "\\u0c6c", "\\u0c6d", "\\u0c6e", "\\u0c6f">>,
     <<"\\u0ce6", "\\u0ce7", "\\u0ce8", "\\u0ce9", "\\u0cea",
       "\\u0ceb", "\\u0cec", "\\u0ced", "\\u0cee", "\\u0cef">>,
     <<"\\u0d66", "\\u0d67", "\\u0d68", "\\u0d69", "\\u0d6a",
       "\\u0d6b", "\\u0d6c", "\\u0d6d", "\\u0d6e", "\\u0d6f">>,
     <<"\\u0de6", "\\u0de7", "\\u0de8", "\\u0de9", "\\u0dea",
       "\\u0deb", "\\u0dec", "\\u0ded", "\\u0dee", "\\u0def">>,
     <<"\\u0e50", "\\u0e51", "\\u0e52", "\\u0e53", "\\u0e54",
       "\\u0e55", "\\u0e56", "\\u0e57", "\\u0e58", "\\u0e59">>,
     <<"\\u0ed0", "\\u0ed1", "\\u0ed2", "\\u0ed3", "\\u0ed4",
       "\\u0ed5", "\\u0ed6", "\\u0ed7", "\\u0ed8", "\\u0ed9">>,
     <<"\\u0f20", "\\u0f21", "\\u0f22", "\\u0f23", "\\u0f24",
       "\\u0f25", "\\u0f26", "\\u0f27", "\\u0f28", "\\u0f29">>,
     <<"\\u1040", "\\u1041", "\\u1042", "\\u1043", "\\u1044",
       "\\u1045", "\\u1046", "\\u1047", "\\u1048", "\\u1049">>,
     <<"\\u1090", "\\u1091", "\\u1092", "\\u1093", "\\u1094",
       "\\u1095", "\\u1096", "\\u1097", "\\u1098", "\\u1099">>,
     <<"\\u17e0", "\\u17e1", "\\u17e2", "\\u17e3", "\\u17e4",
       "\\u17e5", "\\u17e6", "\\u17e7", "\\u17e8", "\\u17e9">>,
     <<"\\u1810", "\\u1811", "\\u1812", "\\u1813", "\\u1814",
       "\\u1815", "\\u1816", "\\u1817", "\\u1818", "\\u1819">>,
     <<"\\u1946", "\\u1947", "\\u1948", "\\u1949", "\\u194a",
       "\\u194b", "\\u194c", "\\u194d", "\\u194e", "\\u194f">>,
     <<"\\u19d0", "\\u19d1", "\\u19d2", "\\u19d3", "\\u19d4",
       "\\u19d5", "\\u19d6", "\\u19d7", "\\u19d8", "\\u19d9">>,
     <<"\\u1a80", "\\u1a81", "\\u1a82", "\\u1a83", "\\u1a84",
       "\\u1a85", "\\u1a86", "\\u1a87", "\\u1a88", "\\u1a89">>,
     <<"\\u1a90", "\\u1a91", "\\u1a92", "\\u1a93", "\\u1a94",
       "\\u1a95", "\\u1a96", "\\u1a97", "\\u1a98", "\\u1a99">>,
     <<"\\u1b50", "\\u1b51", "\\u1b52", "\\u1b53", "\\u1b54",
       "\\u1b55", "\\u1b56", "\\u1b57", "\\u1b58", "\\u1b59">>,
     <<"\\u1bb0", "\\u1bb1", "\\u1bb2", "\\u1bb3", "\\u1bb4",
       "\\u1bb5", "\\u1bb6", "\\u1bb7", "\\u1bb8", "\\u1bb9">>,
     <<"\\u1c40", "\\u1c41", "\\u1c42", "\\u1c43", "\\u1c44",
       "\\u1c45", "\\u1c46", "\\u1c47", "\\u1c48", "\\u1c49">>,
     <<"\\u1c50", "\\u1c51", "\\u1c52", "\\u1c53", "\\u1c54",
       "\\u1c55", "\\u1c56", "\\u1c57", "\\u1c58", "\\u1c59">>,
     <<"\\ua620", "\\ua621", "\\ua622", "\\ua623", "\\ua624",
       "\\ua625", "\\ua626", "\\ua627", "\\ua628", "\\ua629">>,
     <<"\\ua8d0", "\\ua8d1", "\\ua8d2", "\\ua8d3", "\\ua8d4",
       "\\ua8d5", "\\ua8d6", "\\ua8d7", "\\ua8d8", "\\ua8d9">>,
     <<"\\ua900", "\\ua901", "\\ua902", "\\ua903", "\\ua904",
       "\\ua905", "\\ua906", "\\ua907", "\\ua908", "\\ua909">>,
     <<"\\ua9d0", "\\ua9d1", "\\ua9d2", "\\ua9d3", "\\ua9d4",
       "\\ua9d5", "\\ua9d6", "\\ua9d7", "\\ua9d8", "\\ua9d9">>,
     <<"\\ua9f0", "\\ua9f1", "\\ua9f2", "\\ua9f3", "\\ua9f4",
       "\\ua9f5", "\\ua9f6", "\\ua9f7", "\\ua9f8", "\\ua9f9">>,
     <<"\\uaa50", "\\uaa51", "\\uaa52", "\\uaa53", "\\uaa54",
       "\\uaa55", "\\uaa56", "\\uaa57", "\\uaa58", "\\uaa59">>,
     <<"\\uabf0", "\\uabf1", "\\uabf2", "\\uabf3", "\\uabf4",
       "\\uabf5", "\\uabf6", "\\uabf7", "\\uabf8", "\\uabf9">>,
     <<"\\uff10", "\\uff11", "\\uff12", "\\uff13", "\\uff14",
       "\\uff15", "\\uff16", "\\uff17", "\\uff18", "\\uff19">>,
     <<"\\U000104a0", "\\U000104a1", "\\U000104a2", "\\U000104a3", "\\U000104a4",
       "\\U000104a5", "\\U000104a6", "\\U000104a7", "\\U000104a8", "\\U000104a9">>,
     <<"\\U00010d30", "\\U00010d31", "\\U00010d32", "\\U00010d33", "\\U00010d34",
       "\\U00010d35", "\\U00010d36", "\\U00010d37", "\\U00010d38", "\\U00010d39">>,
     <<"\\U00011066", "\\U00011067", "\\U00011068", "\\U00011069", "\\U0001106a",
       "\\U0001106b", "\\U0001106c", "\\U0001106d", "\\U0001106e", "\\U0001106f">>,
     <<"\\U000110f0", "\\U000110f1", "\\U000110f2", "\\U000110f3", "\\U000110f4",
       "\\U000110f5", "\\U000110f6", "\\U000110f7", "\\U000110f8", "\\U000110f9">>,
     <<"\\U00011136", "\\U00011137", "\\U00011138", "\\U00011139", "\\U0001113a",
       "\\U0001113b", "\\U0001113c", "\\U0001113d", "\\U0001113e", "\\U0001113f">>,
     <<"\\U000111d0", "\\U000111d1", "\\U000111d2", "\\U000111d3", "\\U000111d4",
       "\\U000111d5", "\\U000111d6", "\\U000111d7", "\\U000111d8", "\\U000111d9">>,
     <<"\\U000112f0", "\\U000112f1", "\\U000112f2", "\\U000112f3", "\\U000112f4",
       "\\U000112f5", "\\U000112f6", "\\U000112f7", "\\U000112f8", "\\U000112f9">>,
     <<"\\U00011450", "\\U00011451", "\\U00011452", "\\U00011453", "\\U00011454",
       "\\U00011455", "\\U00011456", "\\U00011457", "\\U00011458", "\\U00011459">>,
     <<"\\U000114d0", "\\U000114d1", "\\U000114d2", "\\U000114d3", "\\U000114d4",
       "\\U000114d5", "\\U000114d6", "\\U000114d7", "\\U000114d8", "\\U000114d9">>,
     <<"\\U00011650", "\\U00011651", "\\U00011652", "\\U00011653", "\\U00011654",
       "\\U00011655", "\\U00011656", "\\U00011657", "\\U00011658", "\\U00011659">>,
     <<"\\U000116c0", "\\U000116c1", "\\U000116c2", "\\U000116c3", "\\U000116c4",
       "\\U000116c5", "\\U000116c6", "\\U000116c7", "\\U000116c8", "\\U000116c9">>,
     <<"\\U00011730", "\\U00011731", "\\U00011732", "\\U00011733", "\\U00011734",
       "\\U00011735", "\\U00011736", "\\U00011737", "\\U00011738", "\\U00011739">>,
     <<"\\U000118e0", "\\U000118e1", "\\U000118e2", "\\U000118e3", "\\U000118e4",
       "\\U000118e5", "\\U000118e6", "\\U000118e7", "\\U000118e8", "\\U000118e9">>,
     <<"\\U00011950", "\\U00011951", "\\U00011952", "\\U00011953", "\\U00011954",
       "\\U00011955", "\\U00011956", "\\U00011957", "\\U00011958", "\\U00011959">>,
     <<"\\U00011c50", "\\U00011c51", "\\U00011c52", "\\U00011c53", "\\U00011c54",
       "\\U00011c55", "\\U00011c56", "\\U00011c57", "\\U00011c58", "\\U00011c59">>,
     <<"\\U00011d50", "\\U00011d51", "\\U00011d52", "\\U00011d53", "\\U00011d54",
       "\\U00011d55", "\\U00011d56", "\\U00011d57", "\\U00011d58", "\\U00011d59">>,
     <<"\\U00011da0", "\\U00011da1", "\\U00011da2", "\\U00011da3", "\\U00011da4",
       "\\U00011da5", "\\U00011da6", "\\U00011da7", "\\U00011da8", "\\U00011da9">>,
     <<"\\U00016a60", "\\U00016a61", "\\U00016a62", "\\U00016a63", "\\U00016a64",
       "\\U00016a65", "\\U00016a66", "\\U00016a67", "\\U00016a68", "\\U00016a69">>,
     <<"\\U00016ac0", "\\U00016ac1", "\\U00016ac2", "\\U00016ac3", "\\U00016ac4",
       "\\U00016ac5", "\\U00016ac6", "\\U00016ac7", "\\U00016ac8", "\\U00016ac9">>,
     <<"\\U00016b50", "\\U00016b51", "\\U00016b52", "\\U00016b53", "\\U00016b54",
       "\\U00016b55", "\\U00016b56", "\\U00016b57", "\\U00016b58", "\\U00016b59">>,
     <<"\\U0001d7ce", "\\U0001d7cf", "\\U0001d7d0", "\\U0001d7d1", "\\U0001d7d2",
       "\\U0001d7d3", "\\U0001d7d4", "\\U0001d7d5", "\\U0001d7d6", "\\U0001d7d7">>,
     <<"\\U0001d7d8", "\\U0001d7d9", "\\U0001d7da", "\\U0001d7db", "\\U0001d7dc",
       "\\U0001d7dd", "\\U0001d7de", "\\U0001d7df", "\\U0001d7e0", "\\U0001d7e1">>,
     <<"\\U0001d7e2", "\\U0001d7e3", "\\U0001d7e4", "\\U0001d7e5", "\\U0001d7e6",
       "\\U0001d7e7", "\\U0001d7e8", "\\U0001d7e9", "\\U0001d7ea", "\\U0001d7eb">>,
     <<"\\U0001d7ec", "\\U0001d7ed", "\\U0001d7ee", "\\U0001d7ef", "\\U0001d7f0",
       "\\U0001d7f1", "\\U0001d7f2", "\\U0001d7f3", "\\U0001d7f4", "\\U0001d7f5">>,
     <<"\\U0001d7f6", "\\U0001d7f7", "\\U0001d7f8", "\\U0001d7f9", "\\U0001d7fa",
       "\\U0001d7fb", "\\U0001d7fc", "\\U0001d7fd", "\\U0001d7fe", "\\U0001d7ff">>,
     <<"\\U0001e140", "\\U0001e141", "\\U0001e142", "\\U0001e143", "\\U0001e144",
       "\\U0001e145", "\\U0001e146", "\\U0001e147", "\\U0001e148", "\\U0001e149">>,
     <<"\\U0001e2f0", "\\U0001e2f1", "\\U0001e2f2", "\\U0001e2f3", "\\U0001e2f4",
       "\\U0001e2f5", "\\U0001e2f6", "\\U0001e2f7", "\\U0001e2f8", "\\U0001e2f9">>,
     <<"\\U0001e950", "\\U0001e951", "\\U0001e952", "\\U0001e953", "\\U0001e954",
       "\\U0001e955", "\\U0001e956", "\\U0001e957", "\\U0001e958", "\\U0001e959">>,
     <<"\\U0001fbf0", "\\U0001fbf1", "\\U0001fbf2", "\\U0001fbf3", "\\U0001fbf4",
       "\\U0001fbf5", "\\U0001fbf6", "\\U0001fbf7", "\\U0001fbf8", "\\U0001fbf9">>}

DigitSet == UNION {Range(row) : row \in DigitRows}

IsDigit(c) == c \in DigitSet

\* The whitespace int() strips from both ends of a text. The separators
\* U+001C..U+001F are not part of it.
Whitespace ==
    {" ", "\t", "\n", "\r", "\f", "\\x0b", "\\x85",
     "\\xa0", "\\u1680", "\\u2000", "\\u2001", "\\u2002", "\\u2003", "\\u2004",
     "\\u2005", "\\u2006", "\\u2007", "\\u2008", "\\u2009", "\\u200a", "\\u2028",
     "\\u2029", "\\u202f", "\\u205f", "\\u3000"}

RECURSIVE Strip(_)
Strip(s) ==
    IF s = <<>> THEN s
    ELSE IF Head(s) \in Whitespace THEN Strip(Tail(s))
    ELSE IF s[Len(s)] \in Whitespace THEN Strip(SubSeq(s, 1, Len(s) - 1))
    ELSE s

\* The integer literal of int(): digits, with single underscores between them.
IsDigits(s) ==
    /\ Len(s) > 0
    /\ IsDigit(s[1])
    /\ IsDigit(s[Len(s)])
    /\ \A i \in 1..Len(s) : IsDigit(s[i]) \/ s[i] = "_"
    /\ \A i \in 1..(Len(s) - 1) : ~(s[i] = "_" /\ s[i + 1] = "_")

\* The value of a digit, its place in its row; -1 for any other character.
DigitValue(c) ==
    IF IsDigit(c)
    THEN LET row == CHOOSE r \in DigitRows : c \in Range(r)
         IN (CHOOSE i \in 1..Len(row) : row[i] = c) - 1
    ELSE 0 - 1

RECURSIVE Decimal(_)
\* The value of digits and underscores; the underscores count for nothing.
Decimal(s) ==
    IF s = <<>> THEN 0
    ELSE IF s[Len(s)] = "_" THEN Decimal(SubSeq(s, 1, Len(s) - 1))
    ELSE 10 * Decimal(SubSeq(s, 1, Len(s) - 1)) + DigitValue(s[Len(s)])

\* The limit of int() on the digits of a text (sys.int_max_str_digits).
MaxStrDigits == 4300

\* The digits int() counts against the limit: the characters of the literal
\* but its underscores; leading zeros count.
DigitCount(s) == Cardinality({i \in 1..Len(s) : s[i] # "_"})

\* int(val) for a text: whitespace around an optional sign and an integer
\* literal of at most MaxStrDigits digits, ValueError otherwise (for a text
\* that is no literal and for one with too many digits alike).
IntOfText(s) ==
    LET body == Strip(s)
        signed == Len(body) > 1 /\ body[1] \in {"+", "-"}
        literal == IF signed THEN Tail(body) ELSE body
    IN IF DigitCount(literal) > MaxStrDigits THEN PyRaise("ValueError")
       ELSE IF ~IsDigits(literal) THEN PyRaise("ValueError")
       ELSE PyInt(IF signed /\ body[1] = "-" THEN 0 - Decimal(literal)
                  ELSE Decimal(literal))

\* int(val), line 101: val is the form's text, or what an earlier section made
\* of it.
IntOf(val) ==
    IF val.t = "str" THEN IntOfText(val.s)
    ELSE IF val.t = "bool" THEN PyInt(IF val.b THEN 1 ELSE 0)
    ELSE IF val.t = "int" THEN val
    ELSE PyRaise("TypeError")

\* bool(val): the truth value "if val" tests.
Truthy(val) ==
    IF val.t = "str" THEN val.s # <<>>
    ELSE IF val.t = "int" THEN val.n # 0
    ELSE IF val.t = "bool" THEN val.b
    ELSE IF val.t = "list" THEN val.l # <<>>
    ELSE FALSE


\* ---------------------------------------------------------------------- state
Procs == {"p1", "p2", "p3"}

VARIABLES
    users,          \* committed rows of the User table
    invites,        \* committed rows of the Invitation table, by code
    nextPk,         \* next primary key of the User table
    remote,         \* the accounts of the Emby server, in listing order
    media_folders,  \* the server's library catalog (Items of /Library/MediaFolders)
    now,            \* the wall clock, in days; it advances once per request
    pc,             \* where each request handler stands
    op,             \* the operation a handler runs: "join", "list_users", "delete_user",
                    \* "update_user"
    args,           \* the parameters of join, delete_user or update_user
    session,        \* db.session of the request: pending adds, deletes, updates
    user_id,        \* join: the identifier create_user returned
    names,          \* set_specific_folders: its names argument (join's sections)
    folder_ids,     \* set_specific_folders: the resolved identifiers
    current,        \* the policy (set_specific_folders) or record (update_user) fetched
    new_user,       \* join: the User row once committed
    emby_users,     \* list_users: the fetched accounts
    cursor,         \* list_users: the fetched account the first loop looks up next
    created,        \* the number of accounts the server has created since Init
    result,         \* what the handler returned
    calls,          \* the HTTP requests the handler issued (EmbyClient.get/post/delete)
    failed,         \* the collaborator calls that failed during the request
    pre,            \* the committed tables when the request began
    lastSync        \* the last list_users that returned: its fetch and its result

dbVars == <<users, invites, nextPk>>
remoteVars == <<remote, media_folders, created>>
localVars == <<user_id, names, folder_ids, current, new_user, emby_users, cursor>>
callVars == <<op, args, pre, now>>
vars == <<users, invites, nextPk, remote, media_folders, now, pc, op, args, session,
          user_id, names, folder_ids, current, new_user, emby_users, cursor, created,
          result, calls, failed, pre, lastSync>>

EmptySession == [adds |-> <<>>, dels |-> {}, dirty |-> <<>>]
NoArgs == [username |-> "", password |-> <<>>, confirm |-> <<>>, email |-> <<>>, code |-> ""]
NoResult == [ok |-> FALSE, msg |-> "", users |-> {}]
NoUser == [id |-> 0]

\* Rows that exist before the first request: a user who joined with INV2, and a
\* placeholder an earlier sync made for an account the server no longer has.
UserA == [id |-> 1, username |-> "alice", email |-> EmailA, password |-> "emby-user",
          token |-> "A", code |-> "INV2", expires |-> None]
UserC == [id |-> 2, username |-> "carol", email |-> EmptyEmail, password |-> "empty",
          token |-> "C", code |-> "empty", expires |-> None]

\* The Library table: what Library.query.filter_by(enabled=True) reads.
Libraries ==
    <<[external_id |-> "1", enabled |-> TRUE],
      [external_id |-> "9", enabled |-> TRUE],
      [external_id |-> "2", enabled |-> FALSE]>>

MainCatalog == <<[Id |-> "1", Name |-> "Movies"], [Id |-> "2", Name |-> "Shows"]>>

InitRemote ==
    <<[Id |-> "A", Name |-> "alice", Policy |-> MergedPolicy([IsAdministrator |-> FALSE], <<>>),
       Password |-> None],
      [Id |-> "B", Name |-> "bea", Policy |-> MergedPolicy([IsAdministrator |-> TRUE], <<>>),
       Password |-> None]>>

\* Identifiers the server assigns to the accounts join creates.
NewIds == <<"N1", "N2", "N3", "N4", "N5", "N6">>

\* INV1: single use, seven days, no library list. INV2: reusable, no duration,
\* a library list that names one library twice and one unknown; UserA used it.
InitInvites ==
    [c \in {"INV1", "INV2"} |->
        IF c = "INV1"
        THEN [code |-> c, used |-> FALSE, unlimited |-> FALSE, used_at |-> None,
              used_by |-> None, duration |-> Some(PyInt(7)), libraries |-> <<>>]
        ELSE [code |-> c, used |-> FALSE, unlimited |-> TRUE, used_at |-> Some(0),
              used_by |-> Some(UserA.id), duration |-> None,
              libraries |-> <<"Movies", "1", "zzz">>]]

\* No handler has run yet.
InitIdle ==
    /\ pc = [p \in Procs |-> "idle"]
    /\ op = [p \in Procs |-> ""]
    /\ names = [p \in Procs |-> <<>>]

\* The per-request state of handlers that have not acted yet.
InitScratch ==
    /\ session = [p \in Procs |-> EmptySession]
    /\ folder_ids = [p \in Procs |-> <<>>]
    /\ current = [p \in Procs |-> << >>]
    /\ new_user = [p \in Procs |-> NoUser]
    /\ emby_users = [p \in Procs |-> <<>>]
    /\ cursor = [p \in Procs |-> 1]
    /\ result = [p \in Procs |-> NoResult]
    /\ calls = [p \in Procs |-> <<>>]
    /\ failed = [p \in Procs |-> {}]
    /\ lastSync = [done |-> FALSE, fetched |-> <<>>, users |-> {}]

InitLocals ==
    /\ InitScratch
    /\ args = [p \in Procs |-> NoArgs]
    /\ user_id = [p \in Procs |-> ""]

Init ==
    /\ users = {UserA, UserC}
    /\ invites = InitInvites
    /\ nextPk = 3
    /\ remote = InitRemote
    /\ created = 0
    /\ media_folders = MainCatalog
    /\ now = 0
    /\ pre = [p \in Procs |-> [users |-> users, invites |-> invites]]
    /\ InitLocals
    /\ InitIdle


\* -------------------------------------------------------------------- session
WithId(u, k) ==
    [id |-> k, username |-> u.username, email |-> u.email, password |-> u.password,
     token |-> u.token, code |-> u.code, expires |-> u.expires]

\* db.session.commit(): the pending rows get primary keys in the order they were
\* added, the deleted rows go, the modified invitations are written.
CommittedUsers(s, us, pk) ==
    {u \in us : u.id \notin s.dels} \cup {WithId(s.adds[i], pk + i - 1) : i \in 1..Len(s.adds)}

CommittedInvites(s, invs) ==
    [c \in DOMAIN invs |->
        IF \E i \in 1..Len(s.dirty) : s.dirty[i].code = c
        THEN s.dirty[CHOOSE i \in 1..Len(s.dirty) :
                        s.dirty[i].code = c
                        /\ \A j \in (i + 1)..Len(s.dirty) : s.dirty[j].code # c]
        ELSE invs[c]]

\* ------------------------------------------------------------------ join
\* What app.services.invites.is_invite_valid may answer for a code, as the pair
\* (ok, msg): never ok for a code no invitation has, and for an invitation
\* either ok or one of its refusals.
IsInviteValidOutcomes(code, invs) ==
    {[ok |-> FALSE, msg |-> m] : m \in {InviteError, InviteExpiredError}}
    \cup (IF code \in DOMAIN invs THEN {[ok |-> TRUE, msg |-> ""]} ELSE {})

\* Lines 248-258: the first failing check decides the message; "" when all pass.
\* valid is the answer of is_invite_valid.
ValidationMessage(a, valid) ==
    IF ~EmailMatch(a.email) THEN EmailError
    ELSE IF ~PasswordLengthOk(a.password) THEN PasswordLengthError
    ELSE IF a.password # a.confirm THEN PasswordMatchError
    ELSE IF ~valid.ok THEN valid.msg
    ELSE ""

\* A request begins: a fresh session, the clock has moved on.
BeginCall(p, o, a) ==
    /\ pc[p] \in {"idle", "done"}
    /\ now < MaxCalls
    /\ now' = now + 1
    /\ op' = [op EXCEPT ![p] = o]
    /\ args' = [args EXCEPT ![p] = a]
    /\ session' = [session EXCEPT ![p] = EmptySession]
    /\ user_id' = [user_id EXCEPT ![p] = ""]
    /\ names' = [names EXCEPT ![p] = <<>>]
    /\ folder_ids' = [folder_ids EXCEPT ![p] = <<>>]
    /\ current' = [current EXCEPT ![p] = << >>]
    /\ new_user' = [new_user EXCEPT ![p] = NoUser]
    /\ emby_users' = [emby_users EXCEPT ![p] = <<>>]
    /\ cursor' = [cursor EXCEPT ![p] = 1]
    /\ calls' = [calls EXCEPT ![p] = <<>>]
    /\ pre' = [pre EXCEPT ![p] = [users |-> users, invites |-> invites]]

\* join, lines 243-258: input validation and the invitation check.
JoinValidate(p) ==
    \E username \in Usernames, password \in Passwords, email \in Emails, code \in Codes :
      \E confirm \in Confirms(password) :
        LET a == [username |-> username, password |-> password, confirm |-> confirm,
                  email |-> email, code |-> code]
        IN \E valid \in IF ValidationMessage(a, [ok |-> TRUE, msg |-> ""]) = ""
                         THEN IsInviteValidOutcomes(code, invites)
                         ELSE {[ok |-> TRUE, msg |-> ""]} :
           LET msg == ValidationMessage(a, valid)
           IN
           /\ BeginCall(p, "join", a)
           /\ failed' = [failed EXCEPT ![p] = IF ~valid.ok THEN {"is_invite_valid"} ELSE {}]
           /\ IF msg # ""
              THEN /\ result' = [result EXCEPT ![p] = [ok |-> FALSE, msg |-> msg, users |-> {}]]
                   /\ pc' = [pc EXCEPT ![p] = "done"]
              ELSE /\ result' = [result EXCEPT ![p] = NoResult]
                   /\ pc' = [pc EXCEPT ![p] = "check_existing"]
           /\ UNCHANGED <<dbVars, remoteVars, lastSync>>

\* Variant of Existing that compares the username only.
ExistingByUsername(us, a) == \E u \in us : u.username = a.username

\* User.query.filter(or_(User.username == username, User.email == email)).first()
Existing(us, a) == \E u \in us : u.username = a.username \/ u.email = a.email

\* join, lines 260-265: the duplicate check, one read of the User table.
JoinCheckExisting(p) ==
    /\ pc[p] = "check_existing"
    /\ IF Existing(users, args[p])
       THEN /\ result' = [result EXCEPT ![p] = [ok |-> FALSE, msg |-> DuplicateError, users |-> {}]]
            /\ pc' = [pc EXCEPT ![p] = "done"]
       ELSE /\ pc' = [pc EXCEPT ![p] = "create_user"]
            /\ UNCHANGED result
    /\ UNCHANGED <<dbVars, remoteVars, localVars, callVars, session, calls, failed, lastSync>>

\* The request log of EmbyClient.get / post / delete.
Issue(p, request) == calls' = [calls EXCEPT ![p] = Append(@, request)]

Fail(p, what) == failed' = [failed EXCEPT ![p] = @ \cup {what}]

\* The identifier the server gives the next account it creates: never one it
\* gave before.
NewId == NewIds[created + 1]

SetRemote(id, field, value) ==
    [i \in 1..Len(remote) |->
        IF remote[i].Id = id THEN [remote[i] EXCEPT ![field] = value] ELSE remote[i]]

RemoteAccount(id) == remote[CHOOSE i \in 1..Len(remote) : remote[i].Id = id]

\* Variant of AfterCreateFailure: the creation error is swallowed like the
\* password error.
AfterCreateFailureContinue == "set_password"

\* create_user, line 60: self.post raises out of create_user into join's
\* "except Exception".
AfterCreateFailure == "except"

\* create_user, lines 59-61: POST /Users/New; an error leaves the function
\* before the password request and reaches join's except clause.
JoinCreateUser(p) ==
    /\ pc[p] = "create_user"
    /\ created < Len(NewIds)
    /\ Issue(p, "POST /Users/New")
    /\ \E ok \in BOOLEAN, policy \in DefaultPolicies :
         IF ok
         THEN /\ remote' = Append(remote, [Id |-> NewId, Name |-> args[p].username,
                                           Policy |-> policy, Password |-> None])
              /\ created' = created + 1
              /\ user_id' = [user_id EXCEPT ![p] = NewId]
              /\ pc' = [pc EXCEPT ![p] = "set_password"]
              /\ UNCHANGED failed
         ELSE /\ Fail(p, "createAccount")
              /\ pc' = [pc EXCEPT ![p] = AfterCreateFailure]
              /\ UNCHANGED <<remote, created, user_id>>
    /\ UNCHANGED <<dbVars, media_folders, names, folder_ids, current, new_user, emby_users,
                   cursor, callVars, session, result, lastSync>>

\* Variant of AfterPasswordFailure: the error escapes create_user.
AfterPasswordFailureAbort == "except"

\* create_user, lines 75-80: "except Exception" logs and falls through to
\* "return user_id".
AfterPasswordFailure == "sections"

\* create_user, lines 63-80: POST /Users/{id}/Password inside try/except.
JoinSetPassword(p) ==
    /\ pc[p] = "set_password"
    /\ Issue(p, "POST /Users/{id}/Password")
    /\ \E ok \in BOOLEAN :
         IF ok
         THEN /\ remote' = SetRemote(user_id[p], "Password", Some(args[p].password))
              /\ pc' = [pc EXCEPT ![p] = "sections"]
              /\ UNCHANGED failed
         ELSE /\ Fail(p, "setPassword")
              /\ pc' = [pc EXCEPT ![p] = AfterPasswordFailure]
              /\ UNCHANGED remote
    /\ UNCHANGED <<dbVars, media_folders, created, localVars, callVars, session, result,
                   lastSync>>

\* join, lines 279-287: the invitation's libraries, else every enabled library.
Sections(inv) ==
    IF inv.libraries # <<>> THEN inv.libraries
    ELSE LET on == SelectSeq(Libraries, LAMBDA lib : lib.enabled)
         IN [i \in 1..Len(on) |-> on[i].external_id]

\* join, lines 275-289: read the invitation, choose the library references.
JoinSections(p) ==
    /\ pc[p] = "sections"
    /\ names' = [names EXCEPT ![p] = Sections(invites[args[p].code])]
    /\ pc' = [pc EXCEPT ![p] = "media_folders"]
    /\ UNCHANGED <<dbVars, remoteVars, user_id, folder_ids, current, new_user, emby_users,
                   cursor, callVars, session, result, calls, failed, lastSync>>


\* set_specific_folders, lines 176-210: GET /Library/MediaFolders, then the
\* resolver.
SetFoldersResolve(p) ==
    /\ pc[p] = "media_folders"
    /\ Issue(p, "GET /Library/MediaFolders")
    /\ \E ok \in BOOLEAN :
         IF ok
         THEN /\ \E ids \in DedupFolderIds(MatchRefs(names[p], media_folders)) :
                   folder_ids' = [folder_ids EXCEPT ![p] = ids]
              /\ pc' = [pc EXCEPT ![p] = "get_user"]
              /\ UNCHANGED failed
         ELSE /\ Fail(p, "listLibraries")
              /\ pc' = [pc EXCEPT ![p] = "except"]
              /\ UNCHANGED folder_ids
    /\ UNCHANGED <<dbVars, remoteVars, user_id, names, current, new_user, emby_users,
                   cursor, callVars, session, result, lastSync>>

\* set_specific_folders, lines 212-219: GET /Users/{id}, keep its Policy.
SetFoldersGetUser(p) ==
    /\ pc[p] = "get_user"
    /\ Issue(p, "GET /Users/{id}")
    /\ \E ok \in BOOLEAN :
         IF ok
         THEN /\ current' = [current EXCEPT ![p] = RemoteAccount(user_id[p]).Policy]
              /\ pc' = [pc EXCEPT ![p] = "set_policy"]
              /\ UNCHANGED failed
         ELSE /\ Fail(p, "getAccount")
              /\ pc' = [pc EXCEPT ![p] = "except"]
              /\ UNCHANGED current
    /\ UNCHANGED <<dbVars, remoteVars, user_id, names, folder_ids, new_user, emby_users,
                   cursor, callVars, session, result, lastSync>>

\* set_specific_folders, lines 221-240: merge and POST /Users/{id}/Policy.
SetFoldersSetPolicy(p) ==
    /\ pc[p] = "set_policy"
    /\ Issue(p, "POST /Users/{id}/Policy")
    /\ \E ok \in BOOLEAN :
         IF ok
         THEN /\ remote' = SetRemote(user_id[p], "Policy",
                                     MergedPolicy(current[p], folder_ids[p]))
              /\ pc' = [pc EXCEPT ![p] = "add_user"]
              /\ UNCHANGED failed
         ELSE /\ Fail(p, "setPolicy")
              /\ pc' = [pc EXCEPT ![p] = "except"]
              /\ UNCHANGED remote
    /\ UNCHANGED <<dbVars, media_folders, created, localVars, callVars, session, result,
                   lastSync>>

\* The calendar of datetime. The model counts days from day 0, which stands for
\* the date of ordinal DayZero (30 October 2026); a datetime holds the days of
\* ordinal MinOrdinal (1 January of year 1) to MaxOrdinal (31 December 9999),
\* and a timedelta at most MaxDeltaDays days either way.
DayZero == 739919
MinOrdinal == 1
MaxOrdinal == 3652059
MaxDeltaDays == 999999999

\* Line 300: timedelta(days=days) raises OverflowError beyond its magnitude,
\* and utcnow() + timedelta when the sum leaves the calendar.
DateOverflows(days, t) ==
    \/ days > MaxDeltaDays
    \/ days < 0 - MaxDeltaDays
    \/ DayZero + t + days < MinOrdinal
    \/ DayZero + t + days > MaxOrdinal

\* join, lines 297-300: "if inv.duration", then days = int(inv.duration) and
\* utcnow() + timedelta(days=days). The column holds nothing, an integer or a
\* text.
Expires(inv, t) ==
    IF inv.duration # None /\ Truthy(inv.duration[1])
    THEN Some(t + IntOf(inv.duration[1]).n)
    ELSE None

\* Lines 299-300: int(inv.duration) raises for a value it cannot read, and the
\* date arithmetic for a number of days out of range.
ExpiresRaises(inv, t) ==
    /\ inv.duration # None
    /\ Truthy(inv.duration[1])
    /\ LET days == IntOf(inv.duration[1])
       IN days.t = "raise" \/ DateOverflows(days.n, t)

\* join, lines 294-312: build the User row and db.session.add it.
JoinAddUser(p) ==
    /\ pc[p] = "add_user"
    /\ IF ExpiresRaises(invites[args[p].code], now)
       THEN /\ Fail(p, "duration")
            /\ pc' = [pc EXCEPT ![p] = "except"]
            /\ UNCHANGED session
       ELSE /\ session' = [session EXCEPT ![p].adds =
                  Append(@, [username |-> args[p].username, email |-> args[p].email,
                             password |-> "emby-user", token |-> user_id[p],
                             code |-> args[p].code,
                             expires |-> Expires(invites[args[p].code], now)])]
            /\ pc' = [pc EXCEPT ![p] = "commit_user"]
            /\ UNCHANGED failed
    /\ UNCHANGED <<dbVars, remoteVars, localVars, callVars, result, calls, lastSync>>

\* join, line 313: db.session.commit() of the new row.
JoinCommitUser(p) ==
    /\ pc[p] = "commit_user"
    /\ \E ok \in BOOLEAN :
         IF ok
         THEN /\ users' = CommittedUsers(session[p], users, nextPk)
              /\ invites' = CommittedInvites(session[p], invites)
              /\ nextPk' = nextPk + Len(session[p].adds)
              /\ new_user' = [new_user EXCEPT ![p] = WithId(session[p].adds[1], nextPk)]
              /\ session' = [session EXCEPT ![p] = EmptySession]
              /\ pc' = [pc EXCEPT ![p] = "mark_invite_used"]
              /\ UNCHANGED failed
         ELSE /\ Fail(p, "commitUser")
              /\ pc' = [pc EXCEPT ![p] = "except"]
              /\ UNCHANGED <<dbVars, new_user, session>>
    /\ UNCHANGED <<remoteVars, user_id, names, folder_ids, current, emby_users, cursor, callVars,
                   result, calls, lastSync>>

\* Variant of MarkedUsed that marks every invitation used.
MarkedUsedAlways(inv, user, t) ==
    [inv EXCEPT !.used = TRUE, !.used_at = Some(t), !.used_by = Some(user.id)]

\* mark_invite_used, lines 138-140: the attribute writes on the invitation.
MarkedUsed(inv, user, t) ==
    [inv EXCEPT !.used = IF ~inv.unlimited THEN TRUE ELSE inv.used,
                !.used_at = Some(t),
                !.used_by = Some(user.id)]

\* Line 139: datetime.now() reads the local wall clock, where line 300 reads
\* utcnow(). The model's clock now is the UTC day at which the request began;
\* by the zone of the host and the hour of the reading the local date is that
\* day, the day before or the day after. A request ends within a day.
LocalNow(t) == {t - 1, t, t + 1}

\* join, line 316 with mark_invite_used, lines 136-141: write the invitation
\* and commit, a second transaction after the one of line 313.
JoinMarkInviteUsed(p) ==
    /\ pc[p] = "mark_invite_used"
    /\ \E stamp \in LocalNow(now) :
       LET dirty == [session[p] EXCEPT !.dirty =
                        Append(@, MarkedUsed(invites[args[p].code], new_user[p], stamp))]
       IN \E ok \in BOOLEAN :
            IF ok
            THEN /\ users' = CommittedUsers(dirty, users, nextPk)
                 /\ invites' = CommittedInvites(dirty, invites)
                 /\ nextPk' = nextPk + Len(dirty.adds)
                 /\ session' = [session EXCEPT ![p] = EmptySession]
                 /\ pc' = [pc EXCEPT ![p] = "notify"]
                 /\ UNCHANGED failed
            ELSE /\ Fail(p, "markInvite")
                 /\ session' = [session EXCEPT ![p] = dirty]
                 /\ pc' = [pc EXCEPT ![p] = "except"]
                 /\ UNCHANGED dbVars
    /\ UNCHANGED <<remoteVars, localVars, callVars, result, calls, lastSync>>

\* join, lines 317-320: notify(...) inside the try block, then return True, "".
JoinNotify(p) ==
    /\ pc[p] = "notify"
    /\ \E ok \in BOOLEAN :
         IF ok
         THEN /\ result' = [result EXCEPT ![p] = [ok |-> TRUE, msg |-> "", users |-> {}]]
              /\ pc' = [pc EXCEPT ![p] = "done"]
              /\ UNCHANGED failed
         ELSE /\ Fail(p, "notify")
              /\ pc' = [pc EXCEPT ![p] = "except"]
              /\ UNCHANGED result
    /\ UNCHANGED <<dbVars, remoteVars, localVars, callVars, session, calls, lastSync>>

\* join, lines 322-325: log, db.session.rollback(), return the generic message.
JoinExcept(p) ==
    /\ pc[p] = "except"
    /\ op[p] = "join"
    /\ session' = [session EXCEPT ![p] = EmptySession]
    /\ result' = [result EXCEPT ![p] = [ok |-> FALSE, msg |-> GenericError, users |-> {}]]
    /\ pc' = [pc EXCEPT ![p] = "done"]
    /\ UNCHANGED <<dbVars, remoteVars, localVars, callVars, calls, failed, lastSync>>


\* ---------------------------------------------------------------- list_users
\* {u["Id"]: u for u in ...}: one entry per Id, at the place of its first
\* occurrence, holding its last occurrence.
ById(accounts) ==
    LET firsts == SelectSeq([i \in 1..Len(accounts) |-> i],
                            LAMBDA i : \A j \in 1..(i - 1) : accounts[j].Id # accounts[i].Id)
    IN [k \in 1..Len(firsts) |->
          accounts[CHOOSE i \in 1..Len(accounts) :
                      /\ accounts[i].Id = accounts[firsts[k]].Id
                      /\ \A j \in (i + 1)..Len(accounts) : accounts[j].Id # accounts[i].Id]]

Ids(accounts) == {accounts[i].Id : i \in 1..Len(accounts)}

\* list_users, lines 115-121: the placeholder row for an unmirrored account.
Placeholder(emby) ==
    [username |-> emby.Name, email |-> EmptyEmail, password |-> "empty",
     token |-> emby.Id, code |-> "empty", expires |-> None]

\* Variant of NotExisting that never finds a row.
NotExistingEver(us, id) == TRUE

\* list_users, lines 113-114: User.query.filter_by(token=emby["Id"]).first() is
\* None.
NotExisting(us, id) == ~\E u \in us : u.token = id

\* Variant of Orphaned that compares against nothing.
OrphanedNever(u, embys) == FALSE

\* Variant of Orphaned that also asks the server as it is now.
OrphanedOnServer(u, embys) == u.token \notin Ids(embys) /\ u.token \notin Ids(remote)

\* list_users, line 126: dbu.token not in emby_users.
Orphaned(u, embys) == u.token \notin Ids(embys)

\* list_users is called: a request begins.
SyncCall(p) ==
    /\ BeginCall(p, "list_users", NoArgs)
    /\ pc' = [pc EXCEPT ![p] = "fetch"]
    /\ result' = [result EXCEPT ![p] = NoResult]
    /\ failed' = [failed EXCEPT ![p] = {}]
    /\ UNCHANGED <<dbVars, remoteVars, lastSync>>

\* An exception leaves list_users: it has no handler of its own.
Raise(p, what) ==
    /\ Fail(p, what)
    /\ result' = [result EXCEPT ![p] = [ok |-> FALSE, msg |-> "raised", users |-> {}]]
    /\ pc' = [pc EXCEPT ![p] = "done"]

\* list_users, line 110: GET /Users, keyed by Id.
SyncFetch(p) ==
    /\ pc[p] = "fetch"
    /\ Issue(p, "GET /Users")
    /\ \E ok \in BOOLEAN :
         IF ok
         THEN /\ emby_users' = [emby_users EXCEPT ![p] =
                     ById([i \in 1..Len(remote) |->
                              [Id |-> remote[i].Id, Name |-> remote[i].Name]])]
              /\ pc' = [pc EXCEPT ![p] = "add_missing"]
              /\ UNCHANGED <<failed, result>>
         ELSE /\ Raise(p, "listAccounts")
              /\ UNCHANGED emby_users
    /\ UNCHANGED <<dbVars, remoteVars, user_id, names, folder_ids, current, new_user,
                   cursor, callVars, session, lastSync>>

\* list_users, lines 112-122, one turn of the loop: one SELECT for the fetched
\* account under the cursor (line 113) and, if no committed row mirrors it, a
\* placeholder added to the session. Other handlers may commit between two
\* turns. With nothing fetched, or after the last account, the loop is left.
SyncAddMissing(p) ==
    /\ pc[p] = "add_missing"
    /\ IF emby_users[p] = <<>>
       THEN /\ pc' = [pc EXCEPT ![p] = "commit_adds"]
            /\ UNCHANGED <<session, cursor>>
       ELSE LET emby == emby_users[p][cursor[p]]
            IN /\ session' = [session EXCEPT ![p].adds =
                                 IF NotExisting(users, emby.Id)
                                 THEN Append(@, Placeholder(emby)) ELSE @]
               /\ cursor' = [cursor EXCEPT ![p] = @ + 1]
               /\ pc' = [pc EXCEPT ![p] = IF cursor[p] = Len(emby_users[p])
                                          THEN "commit_adds" ELSE "add_missing"]
    /\ UNCHANGED <<dbVars, remoteVars, user_id, names, folder_ids, current, new_user,
                   emby_users, callVars, result, calls, failed, lastSync>>

\* db.session.commit() of list_users, line 123 or line 128.
SyncCommit(p, at, next, what) ==
    /\ pc[p] = at
    /\ \E ok \in BOOLEAN :
         IF ok
         THEN /\ users' = CommittedUsers(session[p], users, nextPk)
              /\ invites' = CommittedInvites(session[p], invites)
              /\ nextPk' = nextPk + Len(session[p].adds)
              /\ session' = [session EXCEPT ![p] = EmptySession]
              /\ pc' = [pc EXCEPT ![p] = next]
              /\ UNCHANGED <<failed, result>>
         ELSE /\ Raise(p, what)
              /\ UNCHANGED <<dbVars, session>>
    /\ UNCHANGED <<remoteVars, localVars, callVars, calls, lastSync>>

\* Variant of SyncCommitAdds that leaves the additions pending, to be committed
\* together with the deletions.
SyncCommitAddsSkipped(p) ==
    /\ pc[p] = "commit_adds"
    /\ pc' = [pc EXCEPT ![p] = "delete_orphans"]
    /\ UNCHANGED <<dbVars, remoteVars, localVars, callVars, session, result, calls, failed,
                   lastSync>>

\* list_users, line 123: the additions are committed.
SyncCommitAdds(p) == SyncCommit(p, "commit_adds", "delete_orphans", "commitAdds")

\* list_users, lines 125-127: delete every row whose token was not fetched.
SyncDeleteOrphans(p) ==
    /\ pc[p] = "delete_orphans"
    /\ session' = [session EXCEPT ![p].dels =
                      @ \cup {u.id : u \in {v \in users : Orphaned(v, emby_users[p])}}]
    /\ pc' = [pc EXCEPT ![p] = "commit_deletes"]
    /\ UNCHANGED <<dbVars, remoteVars, localVars, callVars, result, calls, failed, lastSync>>

\* list_users, line 128: the deletions are committed.
SyncCommitDeletes(p) == SyncCommit(p, "commit_deletes", "return", "commitDeletes")

\* list_users, line 130: return User.query.all().
SyncReturn(p) ==
    /\ pc[p] = "return"
    /\ result' = [result EXCEPT ![p] = [ok |-> TRUE, msg |-> "", users |-> users]]
    /\ lastSync' = [done |-> TRUE, fetched |-> emby_users[p], users |-> users]
    /\ pc' = [pc EXCEPT ![p] = "done"]
    /\ UNCHANGED <<dbVars, remoteVars, localVars, callVars, session, calls, failed>>

\* --------------------------------------------------------------- delete_user
\* delete_user is called for an account of the server: a request begins.
DeleteUserCall(p) ==
    \E id \in Ids(remote) :
       /\ BeginCall(p, "delete_user", [emby_id |-> id])
       /\ pc' = [pc EXCEPT ![p] = "delete_user"]
       /\ result' = [result EXCEPT ![p] = NoResult]
       /\ failed' = [failed EXCEPT ![p] = {}]
       /\ UNCHANGED <<dbVars, remoteVars, lastSync>>

\* delete_user, lines 85-86: DELETE /Users/{id}; the account leaves the server,
\* or the request fails and delete() raises (line 48).
DeleteUser(p) ==
    /\ pc[p] = "delete_user"
    /\ Issue(p, "DELETE /Users/{id}")
    /\ \E ok \in BOOLEAN :
         IF ok
         THEN /\ remote' = SelectSeq(remote, LAMBDA account : account.Id # args[p].emby_id)
              /\ result' = [result EXCEPT ![p] = [ok |-> TRUE, msg |-> "", users |-> {}]]
              /\ pc' = [pc EXCEPT ![p] = "done"]
              /\ UNCHANGED failed
         ELSE /\ Raise(p, "deleteAccount")
              /\ UNCHANGED remote
    /\ UNCHANGED <<dbVars, media_folders, created, localVars, callVars, session, lastSync>>

\* --------------------------------------------------------------- update_user
RECURSIVE Split(_)
\* str.split(", ").
Split(s) ==
    LET at == {i \in 1..(Len(s) - 1) : s[i] = "," /\ s[i + 1] = " "}
    IN IF at = {} THEN <<s>>
       ELSE LET i == CHOOSE i \in at : \A j \in at : i <= j
            IN <<SubSeq(s, 1, i - 1)>> \o Split(SubSeq(s, i + 2, Len(s)))

\* Line 103: [] if val == "" else val.split(", "); only a str has split.
ListOf(val) ==
    IF val = PyStr(<<>>) THEN PyList(<<>>)
    ELSE IF val.t = "str" THEN PyList(Split(val.s))
    ELSE PyRaise("AttributeError")

\* Lines 98-103: the value by the type of the field it replaces.
Coerce(val, target) ==
    IF target.t = "bool" THEN PyBool(val = PyStr(TrueText))
    ELSE IF target.t = "int" THEN IntOf(val)
    ELSE IF target.t = "list" THEN ListOf(val)
    ELSE val

UserSections == <<"Policy", "Configuration">>

RECURSIVE MergeSections(_, _, _, _)
\* The inner loop, lines 95-104: val is rebound by every section that holds the
\* key, so the next section coerces what the previous one produced.
MergeSections(cur, key, val, sections) ==
    IF sections = <<>> THEN cur
    ELSE LET section == Head(sections)
         IN IF key \in DOMAIN cur[section]
            THEN LET v == Coerce(val, cur[section][key])
                 IN IF v.t = "raise" THEN v
                    ELSE MergeSections([cur EXCEPT ![section][key] = v], key, v,
                                       Tail(sections))
            ELSE MergeSections(cur, key, val, Tail(sections))

Raised(x) == "t" \in DOMAIN x

RECURSIVE MergeForm(_, _)
\* The outer loop, line 94: the items of form in order; the result is the
\* record to post, or the exception that left the loop.
MergeForm(cur, form) ==
    IF form = <<>> THEN cur
    ELSE LET next == MergeSections(cur, Head(form).key, PyStr(Head(form).val), UserSections)
         IN IF Raised(next) THEN next ELSE MergeForm(next, Tail(form))

\* update_user, line 92: current = self.get_user(emby_id).
UpdateGetUser(p) ==
    /\ pc[p] = "update_user"
    /\ Issue(p, "GET /Users/{id}")
    /\ \E ok \in BOOLEAN :
         IF ok
         THEN /\ current' = [current EXCEPT ![p] = RemoteAccount(args[p].emby_id)]
              /\ pc' = [pc EXCEPT ![p] = "merge"]
              /\ UNCHANGED <<failed, result>>
         ELSE /\ Raise(p, "getAccount")
              /\ UNCHANGED current
    /\ UNCHANGED <<dbVars, remoteVars, user_id, names, folder_ids, new_user, emby_users,
                   cursor, callVars, session, lastSync>>

\* update_user, lines 94-106: the merge, then POST /Users/{id} with the record.
UpdateMergePost(p) ==
    /\ pc[p] = "merge"
    /\ LET merged == MergeForm(current[p], args[p].form)
       IN IF Raised(merged)
          THEN /\ Raise(p, merged.s[1])
               /\ UNCHANGED <<remote, calls>>
          ELSE /\ Issue(p, "POST /Users/{id}")
               /\ \E ok \in BOOLEAN :
                    IF ok
                    THEN /\ remote' = [i \in 1..Len(remote) |->
                                         IF remote[i].Id = args[p].emby_id
                                         THEN merged ELSE remote[i]]
                         /\ result' = [result EXCEPT ![p] =
                                         [ok |-> TRUE, msg |-> "", users |-> {}]]
                         /\ pc' = [pc EXCEPT ![p] = "done"]
                         /\ UNCHANGED failed
                    ELSE /\ Raise(p, "updateAccount")
                         /\ UNCHANGED remote
    /\ UNCHANGED <<dbVars, media_folders, created, localVars, callVars, session, lastSync>>


\* ------------------------------------------------------------ specifications
\* Requests served one at a time by a single worker.
Worker == "p1"

Next ==
    \/ JoinValidate(Worker)
    \/ JoinCheckExisting(Worker)
    \/ JoinCreateUser(Worker)
    \/ JoinSetPassword(Worker)
    \/ JoinSections(Worker)
    \/ SetFoldersResolve(Worker)
    \/ SetFoldersGetUser(Worker)
    \/ SetFoldersSetPolicy(Worker)
    \/ JoinAddUser(Worker)
    \/ JoinCommitUser(Worker)
    \/ JoinMarkInviteUsed(Worker)
    \/ JoinNotify(Worker)
    \/ JoinExcept(Worker)
    \/ SyncCall(Worker)
    \/ SyncFetch(Worker)
    \/ SyncAddMissing(Worker)
    \/ SyncCommitAdds(Worker)
    \/ SyncDeleteOrphans(Worker)
    \/ SyncCommitDeletes(Worker)
    \/ SyncReturn(Worker)
    \/ DeleteUserCall(Worker)
    \/ DeleteUser(Worker)

Spec == Init /\ [][Next]_vars


\* The resolver of set_specific_folders on every catalog of at most MaxCatalog
\* items and every reference list of at most MaxRefs references. "2" is both
\* an identifier and a name, "zzz" is neither, and "" is the empty identifier
\* that the filter of line 204 drops.
CatalogItems == [Id : {"", "1", "2"}, Name : {"2", "Movies"}]
Refs == {"", "1", "2", "Movies", "zzz"}

InitResolve ==
    /\ users = {}
    /\ invites = InitInvites
    /\ nextPk = 1
    /\ remote = InitRemote
    /\ created = 0
    /\ media_folders \in SeqsUpTo(CatalogItems, MaxCatalog)
    /\ now = 0
    /\ pre = [p \in Procs |-> [users |-> users, invites |-> invites]]
    /\ InitLocals
    /\ \E refs \in SeqsUpTo(Refs, MaxRefs) :
         /\ pc = [p \in Procs |-> IF p = Worker THEN "media_folders" ELSE "idle"]
         /\ op = [p \in Procs |-> IF p = Worker THEN "join" ELSE ""]
         /\ names = [p \in Procs |-> IF p = Worker THEN refs ELSE <<>>]

NextResolve == SetFoldersResolve(Worker)

SpecResolve == InitResolve /\ [][NextResolve]_vars


\* set_specific_folders as a whole, lines 167-240: every catalog, every
\* reference list and every fetched policy, for the account "A".
InitFolders ==
    /\ users = {}
    /\ invites = InitInvites
    /\ nextPk = 1
    /\ media_folders \in SeqsUpTo(CatalogItems, MaxCatalog)
    /\ now = 0
    /\ pre = [p \in Procs |-> [users |-> users, invites |-> invites]]
    /\ InitScratch
    /\ args = [p \in Procs |-> NoArgs]
    /\ pc = [p \in Procs |-> IF p = Worker THEN "media_folders" ELSE "idle"]
    /\ op = [p \in Procs |-> IF p = Worker THEN "join" ELSE ""]
    /\ user_id = [p \in Procs |-> IF p = Worker THEN "A" ELSE ""]
    /\ \E policy \in DefaultPolicies :
         remote = <<[Id |-> "A", Name |-> "alice", Policy |-> policy, Password |-> None]>>
    /\ created = 0
    /\ \E refs \in SeqsUpTo(Refs, MaxRefs) :
         names = [p \in Procs |-> IF p = Worker THEN refs ELSE <<>>]

NextFolders ==
    \/ SetFoldersResolve(Worker)
    \/ SetFoldersGetUser(Worker)
    \/ SetFoldersSetPolicy(Worker)

SpecFolders == InitFolders /\ [][NextFolders]_vars


\* update_user on the account "A": its Policy and its Configuration each hold
\* the field "K" with a value of some type, or lack it; the form names "K"
\* with some text, the field "Z" that neither block has, both or neither.
\* "Locked" and "Lang" are fields the form never names.
FieldValues ==
    {PyBool(FALSE), PyBool(TRUE), PyInt(1), PyList(<<<<"a">>>>), PyStr(<<"a">>)}

\* A literal of one digit more than int() reads.
LongText == [i \in 1..(MaxStrDigits + 1) |-> "7"]

Texts ==
    {TrueText, <<"F", "a", "l", "s", "e">>, <<>>, <<"7">>, <<"-", "1", "2">>,
     <<"a", ",", " ", "b">>, <<"a", ",", "b">>, <<"a", ",", " ">>,
     <<" ", "7", "\n">>, <<"1", "_", "0">>, <<"\\u0663">>, <<"1", "\\u06f3">>,
     <<"-", "\\u0969">>, <<"\\U0001d7d5">>, <<"\\x1c", "7", "\\x1f">>, LongText}

Blocks(fixed) ==
    {fixed} \cup {Update(fixed, [K |-> v]) : v \in FieldValues}

Forms ==
    {k \o z : k \in {<<>>} \cup {<<[key |-> "K", val |-> text]>> : text \in Texts},
              z \in {<<>>, <<[key |-> "Z", val |-> <<"7">>]>>}}

InitUpdate ==
    /\ users = {UserA}
    /\ invites = InitInvites
    /\ nextPk = 2
    /\ media_folders = MainCatalog
    /\ created = 0
    /\ now = 0
    /\ pre = [p \in Procs |-> [users |-> users, invites |-> invites]]
    /\ InitScratch
    /\ user_id = [p \in Procs |-> ""]
    /\ names = [p \in Procs |-> <<>>]
    /\ pc = [p \in Procs |-> IF p = Worker THEN "update_user" ELSE "idle"]
    /\ op = [p \in Procs |-> IF p = Worker THEN "update_user" ELSE ""]
    /\ \E policy \in Blocks([Locked |-> PyBool(TRUE)]),
          configuration \in Blocks([Lang |-> PyStr(<<"e", "n">>)]) :
         remote = <<[Id |-> "A", Name |-> "alice", Policy |-> policy,
                     Configuration |-> configuration]>>
    /\ \E form \in Forms :
         args = [p \in Procs |-> IF p = Worker THEN [emby_id |-> "A", form |-> form]
                                 ELSE NoArgs]

NextUpdate ==
    \/ UpdateGetUser(Worker)
    \/ UpdateMergePost(Worker)

SpecUpdate == InitUpdate /\ [][NextUpdate]_vars


\* ------------------------------------------------- overlapping request handlers
\* The steps of join after validation and the steps of list_users, for a handler
\* that runs beside others: each step is one read or write of the shared
\* tables or one HTTP call.
JoinSteps(p) ==
    \/ JoinCheckExisting(p)
    \/ JoinCreateUser(p)
    \/ JoinSetPassword(p)
    \/ JoinSections(p)
    \/ SetFoldersResolve(p)
    \/ SetFoldersGetUser(p)
    \/ SetFoldersSetPolicy(p)
    \/ JoinAddUser(p)
    \/ JoinCommitUser(p)
    \/ JoinMarkInviteUsed(p)
    \/ JoinNotify(p)
    \/ JoinExcept(p)

SyncSteps(p) ==
    \/ SyncFetch(p)
    \/ SyncAddMissing(p)
    \/ SyncCommitAdds(p)
    \/ SyncDeleteOrphans(p)
    \/ SyncCommitDeletes(p)
    \/ SyncReturn(p)

\* Arguments that pass the validation of lines 248-258.
ValidArgs(username, email, code) ==
    [username |-> username, password |-> Rep("x", MinPassword),
     confirm |-> Rep("x", MinPassword), email |-> email, code |-> code]

\* The requests in flight: ops gives each handler its operation ("" for none)
\* and a the arguments of the joins. Every join has passed validation, every
\* list_users is about to fetch; the tables are those of Init.
InitOverlap(ops, a) ==
    /\ users = {UserA, UserC}
    /\ invites = InitInvites
    /\ nextPk = 3
    /\ remote = InitRemote
    /\ created = 0
    /\ media_folders = MainCatalog
    /\ now = 1
    /\ pre = [p \in Procs |-> [users |-> users, invites |-> invites]]
    /\ InitScratch
    /\ user_id = [p \in Procs |-> ""]
    /\ names = [p \in Procs |-> <<>>]
    /\ op = ops
    /\ pc = [p \in Procs |-> IF ops[p] = "join" THEN "check_existing"
                             ELSE IF ops[p] = "list_users" THEN "fetch" ELSE "idle"]
    /\ args = a

\* Two joins overlap; the second asks for the same e-mail, with the same or
\* another username and either invitation.
InitJoins ==
    \E username \in {"bob", "dan"}, code \in {"INV1", "INV2"} :
       InitOverlap([p \in Procs |-> IF p = "p3" THEN "" ELSE "join"],
                   [p \in Procs |-> IF p = "p1" THEN ValidArgs("bob", EmailB, "INV1")
                                    ELSE IF p = "p2" THEN ValidArgs(username, EmailB, code)
                                    ELSE NoArgs])

NextJoins == \E p \in Procs : JoinSteps(p)

SpecJoins == InitJoins /\ [][NextJoins]_vars

\* Two list_users overlap each other and one join.
InitSyncs ==
    InitOverlap([p \in Procs |-> IF p = "p3" THEN "join" ELSE "list_users"],
                [p \in Procs |-> IF p = "p3" THEN ValidArgs("bob", EmailB, "INV1")
                                 ELSE NoArgs])

NextOverlap == \E p \in Procs : JoinSteps(p) \/ SyncSteps(p)

SpecSyncs == InitSyncs /\ [][NextOverlap]_vars

\* One list_users overlaps one join.
InitSyncJoin ==
    InitOverlap([p \in Procs |-> IF p = "p1" THEN "join"
                                 ELSE IF p = "p2" THEN "list_users" ELSE ""],
                [p \in Procs |-> IF p = "p1" THEN ValidArgs("bob", EmailB, "INV1")
                                 ELSE NoArgs])

SpecSyncJoin == InitSyncJoin /\ [][NextOverlap]_vars


\* The end of join, lines 296-320, for an invitation of every duration: the
\* account "N1" is provisioned and the User row is about to be built.
MaxDay == 2

Durations ==
    {None} \cup
    {Some(v) : v \in {PyInt(7), PyInt(1), PyInt(0), PyInt(0 - 1),
                      PyStr(<<"7">>), PyStr(<<"0">>), PyStr(<<"-", "1">>), PyStr(<<>>),
                      PyStr(<<" ", "7">>), PyStr(<<"1", "_", "0">>),
                      PyStr(<<"a", "b", "c">>), PyStr(<<"\\uff17">>),
                      PyStr(<<"\\u06f3">>), PyStr(<<"-", "\\u0969">>),
                      PyStr(<<"7", "\\x1f">>), PyStr(<<"3", "0", "0", "0", "0", "0", "0">>),
                      PyInt(3000000), PyInt(0 - 800000), PyInt(MaxDeltaDays),
                      PyInt(MaxDeltaDays + 1), PyStr(LongText)}}

InitExpiry ==
    /\ users = {UserA, UserC}
    /\ nextPk = 3
    /\ media_folders = MainCatalog
    /\ created = 1
    /\ remote = Append(InitRemote, [Id |-> "N1", Name |-> "bob",
                                    Policy |-> MergedPolicy([IsAdministrator |-> FALSE], <<"1">>),
                                    Password |-> Some(Rep("x", MinPassword))])
    /\ InitScratch
    /\ names = [p \in Procs |-> <<>>]
    /\ pc = [p \in Procs |-> IF p = Worker THEN "add_user" ELSE "idle"]
    /\ op = [p \in Procs |-> IF p = Worker THEN "join" ELSE ""]
    /\ user_id = [p \in Procs |-> IF p = Worker THEN "N1" ELSE ""]
    /\ now \in 1..MaxDay
    /\ \E code \in {"INV1", "INV2"}, duration \in Durations :
         /\ invites = [InitInvites EXCEPT ![code].duration = duration]
         /\ args = [p \in Procs |-> IF p = Worker THEN ValidArgs("bob", EmailB, code)
                                    ELSE NoArgs]
    /\ pre = [p \in Procs |-> [users |-> users, invites |-> invites]]

NextExpiry ==
    \/ JoinAddUser(Worker)
    \/ JoinCommitUser(Worker)
    \/ JoinMarkInviteUsed(Worker)
    \/ JoinNotify(Worker)
    \/ JoinExcept(Worker)

SpecExpiry == InitExpiry /\ [][NextExpiry]_vars


\* --------------------------------------------------------------------- claims
W == Worker
JoinReturned == op[W] = "join" /\ pc[W] = "done"
SyncReturned == op[W] = "list_users" /\ pc[W] = "done" /\ result[W].ok
Success == [ok |-> TRUE, msg |-> "", users |-> {}]
GenericFailure == [ok |-> FALSE, msg |-> GenericError, users |-> {}]
LocalUnchanged == users = pre[W].users /\ invites = pre[W].invites
\* The steps after account creation whose failure aborts provisioning.
LaterSteps == {"listLibraries", "getAccount", "setPolicy", "commitUser", "markInvite"}
MyRecords == {u \in users : user_id[W] # "" /\ u.token = user_id[W]}

\* C1: when the password request is the only call that fails, create_user has
\* still returned the identifier of the account it created, and join returns
\* (True, "") with a User row persisted for that account.
C1_PasswordFailureNonFatal ==
    /\ (op[W] = "join" /\ "setPassword" \in failed[W]) =>
          /\ user_id[W] \in Ids(remote)
          /\ (failed[W] = {"setPassword"} => pc[W] # "except")
    /\ (JoinReturned /\ failed[W] = {"setPassword"}) =>
          /\ result[W] = Success
          /\ \E u \in users :
               /\ u.token = user_id[W]
               /\ u.username = args[W].username
               /\ u.email = args[W].email

C1_Witness ==
    /\ JoinReturned
    /\ failed[W] = {"setPassword"}
    /\ result[W].ok
    /\ RemoteAccount(user_id[W]).Password = None

\* C2: once POST /Users/New has failed, join issues no other request, and it
\* returns (False, generic message) with the User and Invitation tables as they
\* were when it was called.
C2_CreateFailureAborts ==
    (op[W] = "join" /\ "createAccount" \in failed[W]) =>
        /\ pc[W] \in {"except", "done"}
        /\ calls[W] = <<"POST /Users/New">>
        /\ LocalUnchanged
        /\ pc[W] = "done" => result[W] = GenericFailure

C2_Witness ==
    /\ JoinReturned
    /\ "createAccount" \in failed[W]
    /\ result[W] = GenericFailure

\* C3: whenever join returns failure after an exception in account creation,
\* library resolution, permission application, User creation or invitation
\* consumption, the User and Invitation tables are as they were before the call
\* and the message is the generic one.
C3_FailureRestoresLocalState ==
    (JoinReturned /\ ~result[W].ok /\ failed[W] \cap ({"createAccount"} \cup LaterSteps) # {}) =>
        /\ LocalUnchanged
        /\ result[W].msg = GenericError

\* C4: in every committed state the User row of a join exists exactly when its
\* invitation carries that row as used_by.
C4_UserAndInviteAtomic ==
    op[W] = "join" =>
        ((MyRecords # {}) <=>
            (\E u \in MyRecords : invites[args[W].code].used_by = Some(u.id)))

\* C5: when every step up to the invitation commit succeeded and notify raises,
\* join returns (True, "").
C5_NotifyFailureNonFatal ==
    (JoinReturned /\ "notify" \in failed[W]) => result[W] = Success

\* C6: join issues no DELETE, and when a step after account creation fails, the
\* remote account exists and no User row refers to it when join returns.
C6_AsymmetricRollback ==
    /\ op[W] = "join" => \A i \in 1..Len(calls[W]) : calls[W][i] # "DELETE /Users/{id}"
    /\ (JoinReturned /\ failed[W] \cap LaterSteps # {}) =>
          /\ user_id[W] \in Ids(remote)
          /\ MyRecords = {}

\* The running join has a malformed e-mail, a password of the wrong length, a
\* confirmation that differs, an invitation reported invalid, or a username or
\* e-mail that a row of the User table already had when join was called.
Rejected ==
    \/ ~EmailMatch(args[W].email)
    \/ Len(args[W].password) < MinPassword
    \/ Len(args[W].password) > MaxPassword
    \/ args[W].password # args[W].confirm
    \/ "is_invite_valid" \in failed[W]
    \/ \E u \in pre[W].users : u.username = args[W].username
    \/ \E u \in pre[W].users : u.email = args[W].email

\* C7: a join whose input is invalid, whose invitation is invalid or whose
\* username or e-mail is already in the User table never gets past the
\* duplicate check: it issues no request, changes no row and returns failure.
C7_RejectedBeforeRemote ==
    (op[W] = "join" /\ Rejected) =>
        /\ pc[W] \in {"check_existing", "done"}
        /\ calls[W] = <<>>
        /\ LocalUnchanged
        /\ user_id[W] = ""
        /\ pc[W] = "done" => (~result[W].ok /\ result[W].msg \notin {"", GenericError})

\* A join refused for its e-mail alone: no row has its username.
C7_Witness ==
    /\ JoinReturned
    /\ result[W].msg = DuplicateError
    /\ ~\E u \in pre[W].users : u.username = args[W].username
    /\ calls[W] = <<>>


Tokens(us) == {u.token : u \in us}
IsPlaceholderFor(u, emby) ==
    /\ u.token = emby.Id
    /\ u.username = emby.Name
    /\ u.email = EmptyEmail
    /\ u.code = "empty"
    /\ u.password = "empty"
    /\ u.expires = None

\* C8: when list_users returns, having run alone on the fetched accounts L, the
\* tokens of the User table are the identifiers of L: the rows whose token is
\* not in L are gone, every identifier of L that had no row has exactly one
\* placeholder row, the rows that matched are kept as they were, nothing else
\* was added, and the returned rows are the whole table.
C8_SyncMirrorsRemote ==
    SyncReturned =>
        LET L == emby_users[W]
            before == pre[W].users
        IN /\ Tokens(users) = Ids(L)
           /\ \A u \in before : (u.token \in Ids(L)) <=> (u \in users)
           /\ \A i \in 1..Len(L) :
                 L[i].Id \notin Tokens(before) =>
                    /\ Cardinality({u \in users : u.token = L[i].Id}) = 1
                    /\ \A u \in users : u.token = L[i].Id => IsPlaceholderFor(u, L[i])
           /\ \A u \in users \ before :
                 \E i \in 1..Len(L) : L[i].Id \notin Tokens(before) /\ IsPlaceholderFor(u, L[i])
           /\ result[W].users = users

\* A sync that deleted a row, created a placeholder and kept a row.
C8_Witness ==
    /\ SyncReturned
    /\ pre[W].users \ users # {}
    /\ users \ pre[W].users # {}
    /\ users \cap pre[W].users # {}

\* The running list_users fetched what the last returned list_users fetched,
\* and began on the table that one left.
SecondRun ==
    /\ op[W] = "list_users"
    /\ pc[W] \in {"commit_adds", "delete_orphans", "commit_deletes", "return"}
    /\ lastSync.done
    /\ emby_users[W] = lastSync.fetched
    /\ pre[W].users = lastSync.users

\* C9: a list_users that runs after another one, with the same accounts fetched
\* and the User table untouched in between, adds nothing, deletes nothing and
\* leaves the table as the first run left it.
C9_SyncIdempotent ==
    SecondRun =>
        /\ session[W].adds = <<>>
        /\ session[W].dels = {}
        /\ users = lastSync.users

C9_Witness ==
    /\ SecondRun
    /\ pc[W] = "return"
    /\ Cardinality(users) >= 2

IdsOf(media) == {media[i].Id : i \in 1..Len(media)}
NamesOf(media) == {media[i].Name : i \in 1..Len(media)}
Resolved == op[W] = "join" /\ pc[W] = "get_user"

\* C10: for every catalog and every reference list, the identifiers the
\* resolver of set_specific_folders computes hold no identifier twice and only
\* identifiers of the catalog; a reference that is an identifier of the catalog
\* is in the result itself, whatever names it equals; any other reference that
\* is a name of the catalog has an identifier with that name in the result;
\* nothing else is in the result, so a reference that matches nothing is
\* dropped and the call goes on.
C10_ResolverSound ==
    Resolved =>
        LET out == folder_ids[W]
            C == media_folders
        IN /\ \A i, j \in 1..Len(out) : out[i] = out[j] => i = j
           /\ Range(out) \subseteq IdsOf(C)
           /\ \A r \in Range(names[W]) :
                 /\ r \in IdsOf(C) => r \in Range(out)
                 /\ (r \notin IdsOf(C) /\ r \in NamesOf(C)) =>
                       \E i \in 1..Len(C) : C[i].Name = r /\ C[i].Id \in Range(out)
           /\ \A x \in Range(out) :
                 \E r \in Range(names[W]) :
                    \/ x = r
                    \/ r \notin IdsOf(C) /\ \E i \in 1..Len(C) : C[i].Name = r /\ C[i].Id = x

\* The place of the last item of the catalog C with the name r: the item the
\* name lookup gives.
LastNamed(C, r) ==
    {i \in 1..Len(C) : C[i].Name = r /\ \A j \in (i + 1)..Len(C) : C[j].Name # r}

\* C10, amended: the identifiers the resolver computes hold no identifier
\* twice and only non-empty identifiers of the catalog; a reference that is a
\* non-empty identifier of the catalog is in the result itself, whatever names
\* it equals; any other reference that is a name of the catalog has the
\* identifier of the last item with that name in the result when that
\* identifier is non-empty; nothing else is in the result, so a reference that
\* matches nothing or resolves to the empty identifier is dropped and the call
\* goes on.
C10_ResolverSoundNonEmpty ==
    Resolved =>
        LET out == folder_ids[W]
            C == media_folders
        IN /\ \A i, j \in 1..Len(out) : out[i] = out[j] => i = j
           /\ Range(out) \subseteq IdsOf(C) \ {""}
           /\ \A r \in Range(names[W]) :
                 /\ (r \in IdsOf(C) /\ r # "") => r \in Range(out)
                 /\ (r \notin IdsOf(C) /\ r \in NamesOf(C)) =>
                       \A i \in LastNamed(C, r) : C[i].Id # "" => C[i].Id \in Range(out)
           /\ \A x \in Range(out) :
                 \E r \in Range(names[W]) :
                    \/ x = r /\ r \in IdsOf(C)
                    \/ r \notin IdsOf(C) /\ \E i \in LastNamed(C, r) : C[i].Id = x

\* A reference that names a library of the empty identifier and is dropped,
\* beside a reference that is an identifier and also the name of that library.
C10_Witness ==
    /\ Resolved
    /\ \E r \in Range(names[W]) :
          /\ r \notin IdsOf(media_folders)
          /\ \E i \in LastNamed(media_folders, r) : media_folders[i].Id = ""
    /\ \E r \in Range(names[W]) : r \in IdsOf(media_folders) /\ r # ""
    /\ Len(folder_ids[W]) = 1
    /\ Len(names[W]) = 2


\* The policy the server holds for the account after set_policy succeeded: the
\* payload of POST /Users/{id}/Policy.
PolicySent == RemoteAccount(user_id[W]).Policy
PolicyPosted == pc[W] = "add_user" /\ failed[W] = {}

\* No reference of names is an identifier or a name of the catalog.
NoneResolves == Range(names[W]) \cap (IdsOf(media_folders) \cup NamesOf(media_folders)) = {}

\* C11: the policy set_specific_folders sends has EnableAllFolders true exactly
\* when the resolved identifier list is empty, and EnabledFolders is exactly the
\* resolved identifiers; an empty reference list and a list of which nothing
\* resolves both send EnableAllFolders true with an empty EnabledFolders.
C11_GrantAllIffEmpty ==
    PolicyPosted =>
        /\ PolicySent.EnableAllFolders = (Len(folder_ids[W]) = 0)
        /\ PolicySent.EnabledFolders = folder_ids[W]
        /\ NoneResolves => PolicySent.EnableAllFolders /\ PolicySent.EnabledFolders = <<>>

C11_Witness ==
    /\ PolicyPosted
    /\ names[W] # <<>>
    /\ NoneResolves
    /\ media_folders # <<>>
    /\ PolicySent.EnableAllFolders
    /\ PolicySent.EnabledFolders = <<>>

PlaybackFlags ==
    {"EnableMediaPlayback", "EnableAudioPlaybackTranscoding",
     "EnableVideoPlaybackTranscoding", "EnablePlaybackRemuxing",
     "EnableContentDownloading", "EnableRemoteAccess"}

\* C12: every policy sent with set_policy has the six baseline playback flags
\* present and true, whatever the fetched policy held and whatever resolved.
C12_PlaybackFlagsForced ==
    PolicyPosted =>
        \A k \in PlaybackFlags : k \in DOMAIN PolicySent /\ PolicySent[k] = TRUE

\* The fetched policy had a playback flag off and lacked another one.
C12_Witness ==
    /\ PolicyPosted
    /\ current[W].EnableRemoteAccess = FALSE
    /\ "EnableContentDownloading" \notin DOMAIN current[W]
    /\ folder_ids[W] # <<>>
    /\ \A k \in PlaybackFlags : PolicySent[k] = TRUE

\* What the rule of the claim makes of a text for a field of the type of target.
CoercedText(text, target) == Coerce(PyStr(text), target)

UpdatePosted == op[W] = "update_user" /\ pc[W] = "done" /\ result[W].ok

\* C13: in the record update_user posts, for every key of the form and every
\* block of the fetched record that holds the key, the value is the form's
\* original text coerced to the type of the fetched value (boolean: the text
\* equals "True"; integer: parsed; list: split on ", ", the empty text giving
\* the empty list; anything else: the text); a key in neither block adds no
\* field, and every field the form does not name is as fetched.
C13_TypeDirectedMerge ==
    UpdatePosted =>
        LET sent == RemoteAccount(args[W].emby_id)
            form == args[W].form
            keys == {form[i].key : i \in 1..Len(form)}
        IN \A i \in 1..Len(UserSections) :
              LET section == UserSections[i]
              IN /\ DOMAIN sent[section] = DOMAIN current[W][section]
                 /\ \A k \in DOMAIN sent[section] \ keys :
                       sent[section][k] = current[W][section][k]
                 /\ \A j \in 1..Len(form) :
                       form[j].key \in DOMAIN current[W][section] =>
                          sent[section][form[j].key] =
                             CoercedText(form[j].val, current[W][section][form[j].key])

\* C14: two overlapping joins for one e-mail or username are not excluded from
\* each other: the duplicate check of a join passes exactly when no committed
\* row has its username or e-mail, whatever another join has in flight, so both
\* can pass it, create their accounts and commit a User row each.
C14_DuplicateCheckSeesCommittedOnly ==
    [][\A p \in Procs :
          (op[p] = "join" /\ pc[p] = "check_existing" /\ pc'[p] # "check_existing") =>
             (pc'[p] = "create_user" <=>
                 \A u \in users : u.username # args[p].username /\ u.email # args[p].email)]_vars

\* Both joins have just committed their rows, for one e-mail and two accounts.
C14_Witness ==
    /\ pc["p1"] = "mark_invite_used"
    /\ pc["p2"] = "mark_invite_used"
    /\ args["p1"].email = args["p2"].email
    /\ new_user["p1"] \in users
    /\ new_user["p2"] \in users
    /\ new_user["p1"].id # new_user["p2"].id
    /\ new_user["p1"].email = new_user["p2"].email
    /\ user_id["p1"] # user_id["p2"]
    /\ {user_id["p1"], user_id["p2"]} \subseteq Ids(remote)

\* C15: overlapping list_users are not serialised. Each looks up the accounts
\* of its own fetch one by one and adds a placeholder for the account under its
\* cursor exactly when no committed row mirrors it at that moment, whatever
\* another handler has pending; and it deletes every committed row whose token
\* is not in its own fetch, whatever the server holds by then. So two of them
\* can create two rows for one account, and one can delete the row of an
\* account that exists because its fetch is older than the account.
C15_SyncActsOnOwnFetch ==
    [][\A p \in Procs :
          op[p] = "list_users" =>
             /\ (pc[p] = "add_missing" /\ cursor'[p] = cursor[p] + 1) =>
                   LET id == emby_users[p][cursor[p]].Id
                       old == session[p].adds
                       new == session'[p].adds
                   IN IF id \in Tokens(users)
                      THEN new = old
                      ELSE /\ Len(new) = Len(old) + 1
                           /\ SubSeq(new, 1, Len(old)) = old
                           /\ new[Len(new)].token = id
             /\ (pc[p] = "delete_orphans" /\ pc'[p] = "commit_deletes") =>
                   session'[p].dels = {u.id : u \in {v \in users : v.token \notin Ids(emby_users[p])}}]_vars

\* Two rows mirror one account, and a row that one list_users returned, for an
\* account the server still has, was deleted by the other, whose fetch lacks it.
C15_Witness ==
    /\ \E u, v \in users : u.id # v.id /\ u.token = v.token
    /\ \E p, q \in Procs :
          /\ p # q
          /\ op[p] = "list_users" /\ op[q] = "list_users"
          /\ pc[p] = "return"
          /\ pc[q] = "done"
          /\ \E u \in result[q].users :
                /\ u \notin users
                /\ u.token \in Ids(remote)
                /\ u.token \notin Ids(emby_users[p])
                /\ u.token \in Ids(emby_users[q])

SyncRuns == op[W] = "list_users"
AdditionsCommitted ==
    /\ pre[W].users \subseteq users
    /\ Ids(emby_users[W]) \subseteq Tokens(users)

\* C16: list_users works in two phases. Until the additions are committed no
\* row is deleted or marked for deletion; the deletions are collected and
\* committed only after that, in a transaction of their own. When the commit
\* of the deletions fails, the committed additions stay and no row is gone;
\* when the fetch or the commit of the additions fails, no row is deleted.
C16_SyncTwoPhase ==
    SyncRuns =>
        /\ pc[W] \in {"fetch", "add_missing", "commit_adds"} =>
              /\ users = pre[W].users
              /\ session[W].dels = {}
        /\ pc[W] \in {"delete_orphans", "commit_deletes"} =>
              /\ session[W].adds = <<>>
              /\ AdditionsCommitted
        /\ (pc[W] = "done" /\ "commitDeletes" \in failed[W]) => AdditionsCommitted
        /\ (pc[W] = "done" /\ failed[W] \cap {"listAccounts", "commitAdds"} # {}) =>
              users = pre[W].users

\* The commit of the deletions failed: the placeholder added in the first
\* phase is there, and so is the row the second phase was to delete.
C16_Witness ==
    /\ SyncRuns
    /\ pc[W] = "done"
    /\ failed[W] = {"commitDeletes"}
    /\ users \ pre[W].users # {}
    /\ \E u \in pre[W].users : u.token \notin Ids(emby_users[W]) /\ u \in users

\* C17: when join returns (True, ""), its invitation has used true if it is
\* not unlimited and the value it had before if it is unlimited; used_at holds
\* a time, a reading of the local clock within a day of the join's UTC day,
\* and used_by the id of the User row the join committed.
C17_InvitationConsumed ==
    (JoinReturned /\ result[W].ok) =>
        LET inv == invites[args[W].code]
            before == pre[W].invites[args[W].code]
        IN /\ ~before.unlimited => inv.used = TRUE
           /\ before.unlimited => inv.used = before.used
           /\ inv.used_at # None
           /\ \E d \in {0 - 1, 0, 1} : inv.used_at = Some(now + d)
           /\ inv.used_by = Some(new_user[W].id)
           /\ new_user[W] \in users
           /\ new_user[W].token = user_id[W]
           /\ new_user[W].username = args[W].username

\* A join with the unlimited invitation, which another user had used before.
C17_Witness ==
    /\ JoinReturned
    /\ result[W].ok
    /\ invites[args[W].code].unlimited
    /\ ~invites[args[W].code].used
    /\ pre[W].invites[args[W].code].used_by # None
    /\ invites[args[W].code].used_by # pre[W].invites[args[W].code].used_by
    /\ invites[args[W].code].used_at # pre[W].invites[args[W].code].used_at

\* The days an invitation grants: the number its duration column holds, 0 when
\* it holds nothing.
DurationDays(inv) ==
    IF inv.duration = None THEN 0 ELSE IntOf(inv.duration[1]).n

\* C18: the User row a join commits expires at the time of the join plus the
\* invitation's duration in days when that duration is positive, and has no
\* expiration when the duration is absent, zero or negative.
C18_ExpirationFromDuration ==
    (op[W] = "join" /\ new_user[W] # NoUser) =>
        LET days == DurationDays(invites[args[W].code])
        IN new_user[W].expires = IF days > 0 THEN Some(now + days) ELSE None

\* C19: when no reference given to set_specific_folders matches the catalog,
\* the user ends up with no library access: the policy sent does not grant
\* every library and enables none.
C19_NoMatchNoAccess ==
    (PolicyPosted /\ NoneResolves) =>
        /\ PolicySent.EnableAllFolders = FALSE
        /\ PolicySent.EnabledFolders = <<>>

\* C20: however one list_users and one join interleave, the User row a
\* successful join committed is in the table as long as the account the join
\* created is on the server: the list_users does not delete it.
C20_JoinedRowSurvivesSync ==
    \A p \in Procs :
       (op[p] = "join" /\ pc[p] = "done" /\ result[p].ok /\ user_id[p] \in Ids(remote)) =>
          new_user[p] \in users

====
